---------------------------- MODULE Spec2Model ----------------------------
(* A model of src/src/04-date-tasks.js: the five exported date functions    *)
(* (parseDataFromRfc2822, parseDataFromIso8601, isLeapYear,                 *)
(* timeSpanToString with its inner formatTime/parseTimeCode, and            *)
(* angleBetweenClockHands), together with the part of the host Date object  *)
(* they call.                                                               *)
(*                                                                          *)
(* Representation.                                                          *)
(*  - A time value (Date.prototype.getTime) is [day, ms]: whole days since   *)
(*    1970-01-01T00:00Z and milliseconds within that day.  One integer of   *)
(*    milliseconds would not fit the model checker's integers.              *)
(*  - A JS number of milliseconds handed to formatTime is sign and          *)
(*    magnitude, [neg, days, ms, sub]: +-(days * 86400000 + ms + sub/10)    *)
(*    milliseconds with ms < 86400000.  Number arithmetic is exact decimal  *)
(*    arithmetic; binary rounding of doubles is not modelled.               *)
(*  - A string is a sequence of one-character strings.                      *)
(*  - An angle in degrees is kept doubled (the hour hand moves in half      *)
(*    degrees); an angle in radians is the fraction [num, den] of pi.       *)
EXTENDS Integers, Sequences, FiniteSets, TLC

VARIABLES zone, nowSummer, dates, input, last, prevSpan

vars == <<zone, nowSummer, dates, input, last, prevSpan>>

-----------------------------------------------------------------------------
(* Bounds of the model. *)

\* years drawn on each side of the century years of CenturyYears
YearRadius == 4
\* the end date of a time span lies at most this many days after the day of the start date
MaxSpanDays == 1

-----------------------------------------------------------------------------
(* The host Date object (ECMAScript 21.4.1), as far as the source uses it. *)

msPerDay == 86400000
msPerMinuteHost == 60000
msPerHourHost == 3600000

DaysInYear(y) ==
  IF y % 4 # 0 THEN 365
  ELSE IF y % 100 # 0 THEN 366
  ELSE IF y % 400 # 0 THEN 365
  ELSE 366

DayFromYear(y) ==
  365 * (y - 1970) + ((y - 1969) \div 4) - ((y - 1901) \div 100) + ((y - 1601) \div 400)

YearFromDay(d) ==
  LET est == 1970 + (d \div 365)
  IN CHOOSE y \in (est - 2)..(est + 2) : DayFromYear(y) <= d /\ d < DayFromYear(y + 1)

\* first day-within-year of month m (0-based), in a leap year or not
MonthStart(m, leap) ==
  LET common == <<0, 31, 59, 90, 120, 151, 181, 212, 243, 273, 304, 334, 365>>
  IN common[m + 1] + (IF leap /\ m >= 2 THEN 1 ELSE 0)

MonthFromDay(d) ==
  LET y == YearFromDay(d)
      leap == DaysInYear(y) = 366
      dayInYear == d - DayFromYear(y)
  IN CHOOSE m \in 0..11 : MonthStart(m, leap) <= dayInYear /\ dayInYear < MonthStart(m + 1, leap)

DateFromDay(d) ==
  LET y == YearFromDay(d)
      leap == DaysInYear(y) = 366
  IN d - DayFromYear(y) - MonthStart(MonthFromDay(d), leap) + 1

\* MakeDay(year, month, date): month and date may lie outside their ranges
MakeDay(year, month, dt) ==
  LET ym == year + (month \div 12)
      mn == month % 12
  IN DayFromYear(ym) + MonthStart(mn, DaysInYear(ym) = 366) + dt - 1

\* a time value moved by delta milliseconds, |delta| < msPerDay
AddMs(tv, delta) ==
  LET s == tv.ms + delta
  IN [day |-> tv.day + (s \div msPerDay), ms |-> s % msPerDay]

\* A time zone: getTimezoneOffset() in minutes (UTC minus local time) outside and
\* inside summer time.  Summer time runs from April to September.
InSummer(tv) == MonthFromDay(tv.day) \in 3..8

TimezoneOffset(z, tv) == IF InSummer(tv) THEN z.summer ELSE z.std

LocalTime(z, tv) == AddMs(tv, -(TimezoneOffset(z, tv) * msPerMinuteHost))

\* UTC(t): the instant whose local time is t; a local time that summer time repeats or
\* skips is read with the offset in force before the change
UTC(z, local) ==
  LET asStd == AddMs(local, z.std * msPerMinuteHost)
      asSummer == AddMs(local, z.summer * msPerMinuteHost)
  IN IF InSummer(asSummer) THEN asSummer
     ELSE IF ~InSummer(asStd) THEN asStd
     ELSE IF MonthFromDay(local.day) \in 0..5 THEN asStd ELSE asSummer

GetFullYear(z, tv) == YearFromDay(LocalTime(z, tv).day)

GetDate(z, tv) == DateFromDay(LocalTime(z, tv).day)

GetHours(z, tv) == LocalTime(z, tv).ms \div msPerHourHost

GetMinutes(z, tv) == (LocalTime(z, tv).ms \div msPerMinuteHost) % 60

\* Date.prototype.setMonth(month): the local day of month and time of day are kept
SetMonth(z, tv, month) ==
  LET t == LocalTime(z, tv)
  IN UTC(z, [day |-> MakeDay(YearFromDay(t.day), month, DateFromDay(t.day)), ms |-> t.ms])

\* Date.prototype.setDate(date): the local year, month and time of day are kept
SetDate(z, tv, dt) ==
  LET t == LocalTime(z, tv)
  IN UTC(z, [day |-> MakeDay(YearFromDay(t.day), MonthFromDay(t.day), dt), ms |-> t.ms])

\* new Date(year, month, date, hours, minutes, seconds, ms) in local time
NewDate(z, y, m, d, tod) == UTC(z, [day |-> MakeDay(y, m, d), ms |-> tod])

-----------------------------------------------------------------------------
(* isLeapYear *)

\* The function's result and the Date object it was given, as the call leaves it.
isLeapYear(z, date) ==
  LET d1 == SetMonth(z, date, 1)
      d2 == SetDate(z, d1, 29)
  IN [ret |-> GetDate(z, d2) = 29, date |-> d2]

-----------------------------------------------------------------------------
(* angleBetweenClockHands *)

\* new Date().getTimezoneOffset(): the zone's offset at the moment of the call
CurrentTimezoneOffset(z, summerNow) == IF summerNow THEN z.summer ELSE z.std

\* delta without the reflection of an angle above max
deltaNoReflex(n, max) == n

\* delta(n, max), on doubled degrees
delta(n, max) == IF n <= max THEN n ELSE max * 2 - n

\* degToRadians(deg) = (deg / 180) * Math.PI, on doubled degrees: a fraction of pi
degToRadians(deg2) == [num |-> deg2, den |-> 2 * 180]

Abs(n) == IF n < 0 THEN -n ELSE n

angleBetweenClockHands(z, summerNow, date) ==
  LET timezoneOffset == CurrentTimezoneOffset(z, summerNow) * 60000
      dateObject == AddMs(date, timezoneOffset)
      clockwise == 12
      minutesInHour == 60
      hours == GetHours(z, dateObject) % clockwise
      minutes == GetMinutes(z, dateObject)
      \* doubled: 2 * 0.5 * (60 * H + M)
      hourHandAngle == minutesInHour * hours + minutes
      \* doubled: 2 * 6 * M
      minuteHandAngle == 2 * 6 * minutes
      angleBetweenHands == Abs(hourHandAngle - minuteHandAngle)
  IN degToRadians(delta(angleBetweenHands, 2 * 180))

-----------------------------------------------------------------------------
(* Strings and numbers of the host, as far as formatTime uses them. *)

Digits == {"0", "1", "2", "3", "4", "5", "6", "7", "8", "9"}

Letters ==
  {"A", "B", "C", "D", "E", "F", "G", "H", "I", "J", "K", "L", "M",
   "N", "O", "P", "Q", "R", "S", "T", "U", "V", "W", "X", "Y", "Z",
   "a", "b", "c", "d", "e", "f", "g", "h", "i", "j", "k", "l", "m",
   "n", "o", "p", "q", "r", "s", "t", "u", "v", "w", "x", "y", "z"}

\* the regular expression class \w
WordChars == Letters \cup Digits \cup {"_"}

RECURSIVE Pow10(_)
Pow10(k) == IF k = 0 THEN 1 ELSE 10 * Pow10(k - 1)

DigitChar(d) == <<"0", "1", "2", "3", "4", "5", "6", "7", "8", "9">>[d + 1]

\* the decimal digits of a natural number
RECURSIVE NatToString(_)
NatToString(n) ==
  IF n < 10 THEN <<DigitChar(n)>> ELSE NatToString(n \div 10) \o <<DigitChar(n % 10)>>

RECURSIVE Repeat(_, _)
Repeat(c, k) == IF k <= 0 THEN <<>> ELSE <<c>> \o Repeat(c, k - 1)

\* padStart that pads nothing
padStartNone(str, targetLength) == str

\* String.prototype.padStart(targetLength, '0')
padStart(str, targetLength) == Repeat("0", targetLength - Len(str)) \o str

\* String.prototype.indexOf(ch): 0-based, -1 when absent
indexOf(str, ch) ==
  IF \E i \in 1..Len(str) : str[i] = ch
  THEN (CHOOSE i \in 1..Len(str) : str[i] = ch /\ \A j \in 1..(i - 1) : str[j] # ch) - 1
  ELSE -1

\* String.prototype.replace(pattern, replacement) with a string pattern: the first
\* occurrence only
replace(str, pattern, replacement) ==
  LET n == Len(pattern)
      At(i) == i + n - 1 <= Len(str) /\ SubSeq(str, i, i + n - 1) = pattern
  IN IF \E i \in 1..Len(str) : At(i)
     THEN LET i == CHOOSE k \in 1..Len(str) : At(k) /\ \A j \in 1..(k - 1) : ~At(j)
          IN SubSeq(str, 1, i - 1) \o replacement \o SubSeq(str, i + n, Len(str))
     ELSE str

\* format.match(/([\w.]+)/g): the maximal runs of word characters and dots, in
\* order; the empty sequence stands for the null of no match
RECURSIVE matchRuns(_, _, _)
matchRuns(str, i, run) ==
  IF i > Len(str) THEN (IF run = <<>> THEN <<>> ELSE <<run>>)
  ELSE IF str[i] \in WordChars \cup {"."} THEN matchRuns(str, i + 1, Append(run, str[i]))
  ELSE (IF run = <<>> THEN <<>> ELSE <<run>>) \o matchRuns(str, i + 1, <<>>)

\* code.match(/\w/) used as a property key: the first word character, or "null"
firstWordChar(code) ==
  IF \E i \in 1..Len(code) : code[i] \in WordChars
  THEN code[CHOOSE i \in 1..Len(code) :
              code[i] \in WordChars /\ \A j \in 1..(i - 1) : code[j] \notin WordChars]
  ELSE "null"

\* the first k decimal digits of the fraction n / d (n < d), as one integer
RECURSIVE FracDigits(_, _, _)
FracDigits(n, d, k) ==
  IF k = 0 THEN 0
  ELSE ((n * 10) \div d) * Pow10(k - 1) + FracDigits((n * 10) % d, d, k - 1)

\* A number after Math.trunc(value * pow) / pow with pow = 10 ^ digits:
\* +-(scaled / 10 ^ digits), or NaN.
NaN == [nan |-> TRUE, neg |-> FALSE, scaled |-> 0, digits |-> 0]

\* Number.prototype.toFixed(fractionDigits), fractionDigits <= x.digits: rounds to
\* the nearest, a tie to the larger magnitude; "-" only for a value below zero
toFixed(x, fractionDigits) ==
  IF x.nan THEN <<"N", "a", "N">>
  ELSE LET drop == x.digits - fractionDigits
           n == IF drop = 0 THEN x.scaled
                ELSE (x.scaled + (Pow10(drop) \div 2)) \div Pow10(drop)
           whole == NatToString(n \div Pow10(fractionDigits))
           frac == NatToString(n % Pow10(fractionDigits))
       IN (IF x.neg /\ x.scaled > 0 THEN <<"-">> ELSE <<>>)
          \o whole
          \o (IF fractionDigits > 0
              THEN <<".">> \o Repeat("0", fractionDigits - Len(frac)) \o frac
              ELSE <<>>)

-----------------------------------------------------------------------------
(* timeSpanToString, formatTime, parseTimeCode *)

timeCodeDict == [c \in {"H", "m", "s"} |->
                   IF c = "H" THEN "hour" ELSE IF c = "m" THEN "minute" ELSE "second"]

timeCoefficient == [hour |-> 3600000, minute |-> 60000, second |-> 1000]

\* timeMax with the hours of a 12-hour clock
timeMaxTwelve == [hour |-> 12, minute |-> 60, second |-> 60]

timeMax == [hour |-> 24, minute |-> 60, second |-> 60]

\* floatPoint is -1 for undefined; undefined and 0 are both falsy
Truthy(floatPoint) == floatPoint > 0

\* Math.trunc(((time / coefficient) % max) * pow) / pow for time = [neg, days, ms, sub];
\* every coefficient divides the milliseconds of a day
TruncatedValue(time, coefficient, max, digits) ==
  LET perDay == msPerDay \div coefficient
      whole == ((time.days % max) * (perDay % max) + (time.ms \div coefficient)) % max
      rest == (time.ms % coefficient) * 10 + time.sub
  IN [nan |-> FALSE, neg |-> time.neg,
      scaled |-> whole * Pow10(digits) + FracDigits(rest, coefficient * 10, digits),
      digits |-> digits]

parseTimeCode(code, time) ==
  LET key == firstWordChar(code)
      type == IF key \in DOMAIN timeCodeDict THEN timeCodeDict[key] ELSE "undefined"
      length == Len(code)
      floatPoint == indexOf(code, ".")
      digits == IF Truthy(floatPoint) THEN length ELSE 0
      value == IF type = "undefined" THEN NaN
               ELSE TruncatedValue(time, timeCoefficient[type], timeMax[type], digits)
  IN [code |-> code, type |-> type, length |-> length, floatPoint |-> floatPoint,
      value |-> value]

\* encodedTime.toString()
encodedToString(timeObj) ==
  padStart(toFixed(timeObj.value,
                   IF Truthy(timeObj.floatPoint)
                   THEN timeObj.length - timeObj.floatPoint - 1 ELSE 0),
           timeObj.length)

RECURSIVE reduceReplace(_, _, _)
reduceReplace(data, i, output) ==
  IF i > Len(data) THEN output
  ELSE reduceReplace(data, i + 1, replace(output, data[i].code, encodedToString(data[i])))

\* formatTime(format, time): the string returned, or the error thrown
formatTime(format, time) ==
  LET matches == matchRuns(format, 1, <<>>)
  IN IF matches = <<>>
     THEN [threw |-> "TypeError", ret |-> <<>>]
     ELSE LET data == [i \in 1..Len(matches) |-> parseTimeCode(matches[i], time)]
          IN [threw |-> "", ret |-> reduceReplace(data, 1, format)]

\* endDate.getTime() - startDate.getTime(), as a number of milliseconds
TimeDifference(startDate, endDate) ==
  LET neg == endDate.day < startDate.day
             \/ (endDate.day = startDate.day /\ endDate.ms < startDate.ms)
      dd == IF neg THEN startDate.day - endDate.day ELSE endDate.day - startDate.day
      dm == IF neg THEN startDate.ms - endDate.ms ELSE endDate.ms - startDate.ms
  IN [neg |-> neg, days |-> dd + (dm \div msPerDay), ms |-> dm % msPerDay, sub |-> 0]

OutputFormat == <<"H", "H", ":", "m", "m", ":", "s", "s", ".", "s", "s", "s">>

timeSpanToString(startDate, endDate) ==
  formatTime(OutputFormat, TimeDifference(startDate, endDate))

-----------------------------------------------------------------------------
(* Date.parse of the host, for the two string profiles the source documents: *)
(* YYYY-MM-DDTHH:mm:ss followed by Z or +-HH:mm, and                         *)
(* "Www, DD Mon YYYY HH:mm:ss GMT" optionally followed by +-HH.  A string of *)
(* neither profile, or one with an illegal element value, gives NaN.         *)

DigitValue(c) == CHOOSE d \in 0..9 : DigitChar(d) = c

AllDigits(str) == \A i \in 1..Len(str) : str[i] \in Digits

RECURSIVE StringToNat(_)
StringToNat(str) ==
  IF str = <<>> THEN 0
  ELSE 10 * StringToNat(SubSeq(str, 1, Len(str) - 1)) + DigitValue(str[Len(str)])

NotATime == [nan |-> TRUE, day |-> 0, ms |-> 0]

MonthNames ==
  <<<<"J", "a", "n">>, <<"F", "e", "b">>, <<"M", "a", "r">>, <<"A", "p", "r">>,
    <<"M", "a", "y">>, <<"J", "u", "n">>, <<"J", "u", "l">>, <<"A", "u", "g">>,
    <<"S", "e", "p">>, <<"O", "c", "t">>, <<"N", "o", "v">>, <<"D", "e", "c">>>>

DayNames ==
  {<<"M", "o", "n">>, <<"T", "u", "e">>, <<"W", "e", "d">>, <<"T", "h", "u">>,
   <<"F", "r", "i">>, <<"S", "a", "t">>, <<"S", "u", "n">>}

\* the time value of the fields, all in range, at minutesEast minutes east of Greenwich
FieldsToTime(y, mo, d, h, mi, sec, minutesEast) ==
  LET tv == AddMs([day |-> MakeDay(y, mo - 1, d),
                   ms |-> h * 3600000 + mi * 60000 + sec * 1000],
                  -(minutesEast * 60000))
  IN [nan |-> FALSE, day |-> tv.day, ms |-> tv.ms]

FieldsLegal(mo, d, h, mi, sec) ==
  mo \in 1..12 /\ d \in 1..31 /\ h \in 0..23 /\ mi \in 0..59 /\ sec \in 0..59

\* "HH:mm:ss" at position i
TimeShape(str, i) ==
  /\ AllDigits(SubSeq(str, i, i + 1)) /\ str[i + 2] = ":"
  /\ AllDigits(SubSeq(str, i + 3, i + 4)) /\ str[i + 5] = ":"
  /\ AllDigits(SubSeq(str, i + 6, i + 7))

IsoShape(str) ==
  /\ Len(str) \in {20, 25}
  /\ AllDigits(SubSeq(str, 1, 4)) /\ str[5] = "-"
  /\ AllDigits(SubSeq(str, 6, 7)) /\ str[8] = "-"
  /\ AllDigits(SubSeq(str, 9, 10)) /\ str[11] = "T"
  /\ TimeShape(str, 12)
  /\ IF Len(str) = 20 THEN str[20] = "Z"
     ELSE /\ str[20] \in {"+", "-"}
          /\ AllDigits(SubSeq(str, 21, 22)) /\ str[23] = ":"
          /\ AllDigits(SubSeq(str, 24, 25))

ParseIsoProfile(str) ==
  LET y == StringToNat(SubSeq(str, 1, 4))
      mo == StringToNat(SubSeq(str, 6, 7))
      d == StringToNat(SubSeq(str, 9, 10))
      h == StringToNat(SubSeq(str, 12, 13))
      mi == StringToNat(SubSeq(str, 15, 16))
      sec == StringToNat(SubSeq(str, 18, 19))
      zh == IF Len(str) = 20 THEN 0 ELSE StringToNat(SubSeq(str, 21, 22))
      zm == IF Len(str) = 20 THEN 0 ELSE StringToNat(SubSeq(str, 24, 25))
      sign == IF Len(str) = 25 /\ str[20] = "-" THEN -1 ELSE 1
  IN IF FieldsLegal(mo, d, h, mi, sec) /\ zh \in 0..23 /\ zm \in 0..59
     THEN FieldsToTime(y, mo, d, h, mi, sec, sign * (zh * 60 + zm))
     ELSE NotATime

RfcShape(str) ==
  /\ Len(str) \in {29, 32}
  /\ SubSeq(str, 1, 3) \in DayNames /\ str[4] = "," /\ str[5] = " "
  /\ AllDigits(SubSeq(str, 6, 7)) /\ str[8] = " "
  /\ \E k \in 1..12 : MonthNames[k] = SubSeq(str, 9, 11)
  /\ str[12] = " " /\ AllDigits(SubSeq(str, 13, 16)) /\ str[17] = " "
  /\ TimeShape(str, 18) /\ str[26] = " "
  /\ SubSeq(str, 27, 29) = <<"G", "M", "T">>
  /\ Len(str) = 32 => str[30] \in {"+", "-"} /\ AllDigits(SubSeq(str, 31, 32))

ParseRfcProfile(str) ==
  LET d == StringToNat(SubSeq(str, 6, 7))
      mo == CHOOSE k \in 1..12 : MonthNames[k] = SubSeq(str, 9, 11)
      y == StringToNat(SubSeq(str, 13, 16))
      h == StringToNat(SubSeq(str, 18, 19))
      mi == StringToNat(SubSeq(str, 21, 22))
      sec == StringToNat(SubSeq(str, 24, 25))
      zh == IF Len(str) = 29 THEN 0 ELSE StringToNat(SubSeq(str, 31, 32))
      sign == IF Len(str) = 32 /\ str[30] = "-" THEN -1 ELSE 1
  IN IF FieldsLegal(mo, d, h, mi, sec) /\ zh \in 0..23
     THEN FieldsToTime(y, mo, d, h, mi, sec, sign * zh * 60)
     ELSE NotATime

\* Date.parse(value): a time value, or NaN; it never throws
DateParse(str) ==
  IF IsoShape(str) THEN ParseIsoProfile(str)
  ELSE IF RfcShape(str) THEN ParseRfcProfile(str)
  ELSE NotATime

parseDataFromRfc2822(value) == [threw |-> "", ret |-> DateParse(value)]

parseDataFromIso8601(value) == [threw |-> "", ret |-> DateParse(value)]

-----------------------------------------------------------------------------
(* The inputs the calls are made with. *)

Zones ==
  {[std |-> 0, summer |-> 0], [std |-> -60, summer |-> -120],
   [std |-> 300, summer |-> 240], [std |-> -330, summer |-> -330]}

Greenwich == [std |-> 0, summer |-> 0]

CenturyYears == {1900, 2000}

Years == UNION {(c - YearRadius)..(c + YearRadius) : c \in CenturyYears}

\* new Date(y, m, d, ...) for the days of month 1, 28, 29, 30, 31 of every month:
\* the constructor carries a day past the month's end into the next month
CalendarDates(z) ==
  {NewDate(z, y, m, d, tod) :
     y \in Years, m \in 0..11, d \in {1, 28, 29, 30, 31}, tod \in {0, 36000000, 86399999}}

\* a winter and a summer day, every minute of the day
ClockDates ==
  {[day |-> MakeDay(2016, m, 5), ms |-> h * 3600000 + mi * 60000 + 30500] :
     m \in {0, 6}, h \in 0..23, mi \in 0..59}

SpanDay == MakeDay(2000, 1, 1)

StartDates == {[day |-> SpanDay, ms |-> 10 * 3600000]}

NotAfter(b, c) == b.day < c.day \/ (b.day = c.day /\ b.ms <= c.ms)

TimeOfDay(h, mi, sec, x) == h * 3600000 + mi * 60000 + sec * 1000 + x

\* the documented examples, and times next to a change of the seconds, the minutes
\* and the hours field, before and after the start
EndTimes ==
  {TimeOfDay(9, 0, 0, 0), TimeOfDay(9, 59, 59, 999), TimeOfDay(10, 0, 0, 0),
   TimeOfDay(10, 0, 0, 250), TimeOfDay(10, 0, 0, 999), TimeOfDay(10, 0, 20, 0),
   TimeOfDay(10, 0, 59, 999), TimeOfDay(10, 30, 0, 0), TimeOfDay(10, 59, 59, 999),
   TimeOfDay(11, 0, 0, 0), TimeOfDay(15, 20, 10, 453), TimeOfDay(15, 59, 59, 999)}

EndDates == {[day |-> SpanDay + k, ms |-> t] : k \in 0..MaxSpanDays, t \in EndTimes}

Formats ==
  {OutputFormat,
   <<"H", "H", ":", "m", "m">>,
   <<"s", "s", ".", "s", "s", "s">>,
   <<"s", ".", "s">>,
   <<".", "s", "s", "s">>,
   <<"d", "d", ":", "H", "H", ":", "m", "m">>,
   <<"Y", "Y", "Y", "Y", " ", "H", "H">>,
   <<":", ":">>,
   <<"m", "m", ":", "s", "s", ".", "s">>}

\* milliseconds with a tenth: none, one below and one above the half
Times ==
  {[neg |-> n, days |-> ms \div msPerDay, ms |-> ms % msPerDay, sub |-> sub] :
     n \in BOOLEAN, ms \in {0, 999, 59999, 3599999, 19210453, 86399999, 86400000},
     sub \in {0, 4, 6}}

IsoYears == {<<"2", "0", "1", "6">>, <<"1", "9", "9", "8">>}
RfcTail == {<<"G", "M", "T">>, <<"G", "M", "T", "+", "0", "1">>}

\* strings of the ISO 8601 profile; month 13, day 32, hour 25 and minute 60 are illegal
IsoStrings(months, days, hours, minutes) ==
  {y \o <<"-">> \o mo \o <<"-">> \o d \o <<"T">> \o h \o <<":">> \o mi \o <<":", "3", "7">> \o tz :
     y \in IsoYears, mo \in months, d \in days, h \in hours, mi \in minutes,
     tz \in {<<"Z">>, <<"+", "0", "0", ":", "0", "0">>, <<"-", "0", "5", ":", "3", "0">>}}

\* strings of the RFC 2822 profile
RfcStrings(days, months, hours) ==
  {<<"T", "u", "e", ",", " ">> \o d \o <<" ">> \o mo \o <<" ">> \o y \o <<" ">> \o h
     \o <<":", "4", "8", ":", "0", "2", " ">> \o tz :
     d \in days, mo \in months, y \in IsoYears, h \in hours, tz \in RfcTail}

GoodMonths == {<<"0", "1">>, <<"1", "2">>}
GoodDays == {<<"1", "9">>, <<"3", "1">>}
GoodHours == {<<"0", "8">>, <<"1", "6">>}
GoodMinutes == {<<"0", "7">>, <<"5", "9">>}
GoodMonthNames == {<<"J", "a", "n">>, <<"M", "a", "y">>}
AnyOf(good, bad) == good \cup {bad}

WellFormedInputs ==
  IsoStrings(GoodMonths, GoodDays, GoodHours, GoodMinutes)
  \cup RfcStrings(GoodDays, GoodMonthNames, GoodHours)

\* strings outside the grammar: no date at all, or a field with an illegal value
MalformedInputs ==
  {<<>>, <<"n", "o", "t", " ", "a", " ", "d", "a", "t", "e">>}
  \cup (IsoStrings(AnyOf(GoodMonths, <<"1", "3">>), AnyOf(GoodDays, <<"3", "2">>),
                   AnyOf(GoodHours, <<"2", "5">>), AnyOf(GoodMinutes, <<"6", "0">>))
        \ IsoStrings(GoodMonths, GoodDays, GoodHours, GoodMinutes))
  \cup (RfcStrings(AnyOf(GoodDays, <<"3", "2">>), AnyOf(GoodMonthNames, <<"F", "o", "o">>), AnyOf(GoodHours, <<"2", "5">>))
        \ RfcStrings(GoodDays, GoodMonthNames, GoodHours))

ParseInputs == WellFormedInputs \cup MalformedInputs

-----------------------------------------------------------------------------
(* The state machine.  The library keeps no state of its own.  The state is  *)
(* what its caller holds and observes: the machine's time zone (zone, and    *)
(* whether the present moment lies in its summer time), the caller's Date    *)
(* objects (dates: the time value of each), the caller's other argument      *)
(* (input: a string to parse, or a format and a number of milliseconds), the *)
(* most recent call (last: its arguments as handed over and what it returned *)
(* or threw), and the timeSpanToString call before it, if the call before    *)
(* was one (prevSpan).                                                       *)

NoCall == [op |-> "none"]

NoInput == [kind |-> "none"]

InitEnv ==
  /\ zone \in Zones
  /\ nowSummer \in BOOLEAN
  /\ last = NoCall
  /\ prevSpan = NoCall

\* a machine set to Greenwich time, in winter
InitGreenwich ==
  /\ zone = Greenwich
  /\ nowSummer = FALSE
  /\ last = NoCall
  /\ prevSpan = NoCall

\* the caller holds a string
InitParse ==
  /\ InitGreenwich
  /\ dates = <<>>
  /\ input \in {[kind |-> "string", value |-> v] : v \in ParseInputs}

\* the caller holds one Date object, constructed in local time
InitLeap ==
  /\ InitEnv
  /\ dates \in {<<d>> : d \in CalendarDates(zone)}
  /\ input = NoInput

\* the caller holds three Date objects, the third not before the second
InitSpan ==
  /\ InitGreenwich
  /\ dates \in {d \in {<<a, b, c>> : a \in StartDates, b \in EndDates, c \in EndDates} :
                  NotAfter(d[2], d[3])}
  /\ input = NoInput

\* the caller holds a format and a number of milliseconds
InitFormat ==
  /\ InitGreenwich
  /\ dates = <<>>
  /\ input \in {[kind |-> "format", format |-> f, time |-> t] : f \in Formats, t \in Times}

\* the caller holds one Date object
InitClock ==
  /\ InitEnv
  /\ dates \in {<<d>> : d \in ClockDates}
  /\ input = NoInput

Init == InitParse \/ InitLeap \/ InitSpan \/ InitFormat \/ InitClock

Returned(op, args, r) == [op |-> op, args |-> args, ret |-> r.ret, threw |-> r.threw]

ParseDataFromRfc2822 ==
  /\ input.kind = "string"
  /\ last' = Returned("parseDataFromRfc2822", input, parseDataFromRfc2822(input.value))
  /\ prevSpan' = NoCall
  /\ UNCHANGED <<zone, nowSummer, dates, input>>

ParseDataFromIso8601 ==
  /\ input.kind = "string"
  /\ last' = Returned("parseDataFromIso8601", input, parseDataFromIso8601(input.value))
  /\ prevSpan' = NoCall
  /\ UNCHANGED <<zone, nowSummer, dates, input>>

\* isLeapYear(dates[i]): the object is the caller's, and the call writes to it
IsLeapYear(i) ==
  LET r == isLeapYear(zone, dates[i])
  IN /\ last' = Returned("isLeapYear", [object |-> i, date |-> dates[i]],
                         [ret |-> r.ret, threw |-> ""])
     /\ dates' = [dates EXCEPT ![i] = r.date]
     /\ prevSpan' = NoCall
     /\ UNCHANGED <<zone, nowSummer, input>>

TimeSpanToString(i, j) ==
  /\ last' = Returned("timeSpanToString",
                      [startDate |-> dates[i], endDate |-> dates[j],
                       time |-> TimeDifference(dates[i], dates[j])],
                      timeSpanToString(dates[i], dates[j]))
  /\ prevSpan' = IF last.op = "timeSpanToString" THEN last ELSE NoCall
  /\ UNCHANGED <<zone, nowSummer, dates, input>>

FormatTime ==
  /\ input.kind = "format"
  /\ last' = Returned("formatTime", input, formatTime(input.format, input.time))
  /\ prevSpan' = NoCall
  /\ UNCHANGED <<zone, nowSummer, dates, input>>

AngleBetweenClockHands(i) ==
  /\ last' = Returned("angleBetweenClockHands", [object |-> i, date |-> dates[i]],
                      [ret |-> angleBetweenClockHands(zone, nowSummer, dates[i]),
                       threw |-> ""])
  /\ prevSpan' = NoCall
  /\ UNCHANGED <<zone, nowSummer, dates, input>>

NextParse == ParseDataFromRfc2822 \/ ParseDataFromIso8601

NextLeap == \E i \in DOMAIN dates : IsLeapYear(i)

NextSpan == \E i \in DOMAIN dates, j \in DOMAIN dates : TimeSpanToString(i, j)

NextFormat == FormatTime

NextClock == \E i \in DOMAIN dates : AngleBetweenClockHands(i)

Next == NextParse \/ NextLeap \/ NextSpan \/ NextFormat \/ NextClock

Spec == Init /\ [][Next]_vars

\* one specification for each function, called alone
SpecParse == InitParse /\ [][NextParse]_vars

SpecLeap == InitLeap /\ [][NextLeap]_vars

SpecSpan == InitSpan /\ [][NextSpan]_vars

SpecFormat == InitFormat /\ [][NextFormat]_vars

SpecClock == InitClock /\ [][NextClock]_vars

-----------------------------------------------------------------------------
(* What the claims compare the code with. *)

\* the Gregorian rule
GregorianLeap(y) == y % 4 = 0 /\ (y % 100 # 0 \/ y % 400 = 0)

TwoDigits(n) == <<DigitChar((n \div 10) % 10), DigitChar(n % 10)>>

ThreeDigits(n) == <<DigitChar((n \div 100) % 10), DigitChar((n \div 10) % 10), DigitChar(n % 10)>>

\* HH:mm:ss.sss of whole days and d >= 0 whole milliseconds: every field is truncated
\* and wrapped, and whole days change no field, 24 h being whole minutes and seconds
ExpectedSpan(d) ==
  TwoDigits((d \div 3600000) % 24) \o <<":">> \o TwoDigits((d \div 60000) % 60) \o <<":">>
    \o TwoDigits((d \div 1000) % 60) \o <<".">> \o ThreeDigits(d % 1000)

\* the shape DD:DD:DD.DDD
FixedWidthShape(str) ==
  /\ Len(str) = 12
  /\ \A i \in {1, 2, 4, 5, 7, 8, 10, 11, 12} : str[i] \in Digits
  /\ str[3] = ":" /\ str[6] = ":" /\ str[9] = "."

\* the code unit of a character a formatted string can hold
CharCode(c) ==
  IF c = "-" THEN 45 ELSE IF c = "." THEN 46 ELSE IF c \in Digits THEN 48 + DigitValue(c)
  ELSE IF c = ":" THEN 58 ELSE IF c = "N" THEN 78 ELSE 97

\* a <= b as JavaScript compares strings
RECURSIVE LexLeq(_, _)
LexLeq(a, b) ==
  IF a = <<>> THEN TRUE
  ELSE IF b = <<>> THEN FALSE
  ELSE IF CharCode(Head(a)) # CharCode(Head(b)) THEN CharCode(Head(a)) < CharCode(Head(b))
  ELSE LexLeq(Tail(a), Tail(b))

\* the angle of the hands at the Greenwich hour and minute of a time value
GreenwichAngle(date) ==
  LET h == (date.ms \div 3600000) % 12
      m == (date.ms \div 60000) % 60
      raw == Abs((60 * h + m) - 12 * m)
  IN [num |-> IF raw <= 360 THEN raw ELSE 720 - raw, den |-> 360]

\* a field of the format whose unit character is none of H, m, s
HasUnknownUnit(format) ==
  LET matches == matchRuns(format, 1, <<>>)
  IN \E i \in 1..Len(matches) : firstWordChar(matches[i]) \notin {"H", "m", "s"}

InDayWindow(time) == ~time.neg /\ time.days = 0

ZeroSpan == <<"0", "0", ":", "0", "0", ":", "0", "0", ".", "0", "0", "0">>

-----------------------------------------------------------------------------
(* The claims. *)

\* C1: isLeapYear returns true exactly when the year of the date it is given is a
\* leap year by the Gregorian rule, whatever the date's month and day of month.
C1_LeapYearRule ==
  last.op = "isLeapYear" =>
    (last.ret <=> GregorianLeap(GetFullYear(zone, last.args.date)))

\* C2: for end >= start, timeSpanToString returns HH:mm:ss.sss of the difference d in
\* milliseconds: trunc(d/3600000) mod 24, trunc(d/60000) mod 60, trunc(d/1000) mod 60
\* and d mod 1000, zero-padded to 2, 2, 2 and 3 digits, the separators kept.
C2_SpanFormat ==
  (last.op = "timeSpanToString" /\ ~last.args.time.neg) =>
    (last.threw = "" /\ last.ret = ExpectedSpan(last.args.time.ms))

\* a span of one day, 5 h 20 min 10.453 s has been formatted, the hours wrapped
C2_Witness ==
  /\ last.op = "timeSpanToString"
  /\ last.args.time = [neg |-> FALSE, days |-> 1, ms |-> 19210453, sub |-> 0]
  /\ last.ret = <<"0", "5", ":", "2", "0", ":", "1", "0", ".", "4", "5", "3">>

\* C3: in every time zone of the machine, angleBetweenClockHands returns the angle of
\* the hands at the Greenwich hour and minute of the instant it is given.
C3_GreenwichAngle ==
  last.op = "angleBetweenClockHands" => last.ret = GreenwichAngle(last.args.date)

\* C4: the angle angleBetweenClockHands returns lies in [0, pi].
C4_AngleRange ==
  last.op = "angleBetweenClockHands" =>
    (last.ret.den > 0 /\ 0 <= last.ret.num /\ last.ret.num <= last.ret.den)

\* the angle at 21:00 Greenwich time has been computed: 270 degrees between the hands,
\* returned as pi/2
C4_Witness ==
  /\ last.op = "angleBetweenClockHands"
  /\ zone = Greenwich
  /\ last.args.date.ms = TimeOfDay(21, 0, 30, 500)
  /\ last.ret = [num |-> 180, den |-> 360]

\* C5: for start and end in either order, timeSpanToString returns 12 characters
\* of the shape DD:DD:DD.DDD.
C5_FixedWidth ==
  last.op = "timeSpanToString" => (last.threw = "" /\ FixedWidthShape(last.ret))

\* C6: after isLeapYear returns, the Date object it was given denotes the instant
\* it denoted before the call.
C6_ArgumentUnchanged ==
  last.op = "isLeapYear" => dates[last.args.object] = last.args.date

\* C7: for a string outside the date grammar the two parse functions fail with a
\* ParseError, and return no NaN.
C7_MalformedRejected ==
  (last.op \in {"parseDataFromRfc2822", "parseDataFromIso8601"}
   /\ last.args.value \in MalformedInputs) =>
    last.threw = "ParseError"

\* C8: for a format with a field whose unit character is none of H, m, s, formatTime
\* fails with an InvalidFormatError.
C8_UnknownUnitRejected ==
  (last.op = "formatTime" /\ HasUnknownUnit(last.args.format)) =>
    last.threw = "InvalidFormatError"

\* C9: within one day, timeSpanToString is monotonic: of two spans 0 <= d1 <= d2 <
\* 86400000 ms the string of d1 is not greater than the string of d2; and for the
\* same start and end the result is 00:00:00.000.
C9_Monotonic ==
  last.op = "timeSpanToString" =>
    /\ last.args.startDate = last.args.endDate => last.ret = ZeroSpan
    /\ (/\ prevSpan.op = "timeSpanToString"
        /\ InDayWindow(prevSpan.args.time) /\ InDayWindow(last.args.time)
        /\ prevSpan.args.time.ms <= last.args.time.ms)
       => LexLeq(prevSpan.ret, last.ret)

\* a span of 59.999 s and then one of 30 min have been formatted
C9_Witness ==
  /\ prevSpan.op = "timeSpanToString" /\ last.op = "timeSpanToString"
  /\ prevSpan.args.time = [neg |-> FALSE, days |-> 0, ms |-> 59999, sub |-> 0]
  /\ last.args.time = [neg |-> FALSE, days |-> 0, ms |-> 1800000, sub |-> 0]
  /\ prevSpan.ret = <<"0", "0", ":", "0", "0", ":", "5", "9", ".", "9", "9", "9">> /\ last.ret = <<"0", "0", ":", "3", "0", ":", "0", "0", ".", "0", "0", "0">>

\* C10: the fraction of the seconds is truncated to the field's digits and carries
\* nothing into the seconds, also for a duration with a part below the millisecond:
\* HH:mm:ss.sss of a duration >= 0 shows its whole milliseconds.
C10_FractionTruncated ==
  (last.op = "formatTime" /\ last.args.format = OutputFormat /\ ~last.args.time.neg) =>
    last.ret = ExpectedSpan(last.args.time.ms)

=============================================================================
